---- MODULE Spec2Model ----
(***************************************************************************)
(* Model of the nutrition aggregation / goal-version / saved-item ledger   *)
(* core of nutrifresh-server (services/database_service.py and the meal,   *)
(* saved-item and user routers that drive it).                             *)
(*                                                                         *)
(* Three specifications share the module:                                  *)
(*   SpecAgg    meal logging and the daily_nutrition_aggregates table      *)
(*   SpecGoals  health profiles and the user_nutrition_goals table         *)
(*   SpecLedger the saved_items table and its read-time derivations        *)
(* Time is counted in ticks; TicksPerDay ticks make one calendar day.      *)
(***************************************************************************)
EXTENDS Integers, Sequences, FiniteSets, TLC

VARIABLES
    now,            \* the clock (ticks): datetime.now() / CURRENT_TIMESTAMP
    meals,          \* table meals
    aggregates,     \* table daily_nutrition_aggregates
    requests,       \* meal-logging requests, in flight and finished
    users,          \* table users (ids of the existing accounts)
    profiles,       \* table user_health_profiles
    goalVersions,   \* table user_nutrition_goals
    goalOp,         \* outcome of the last profile / goal / summary operation
    sessions,       \* table sessions (scan records)
    saved_items,    \* table saved_items
    saveLog,        \* the saved_item dict the router built at the last save
    ledgerOp        \* outcome of the last saved-item operation

aggVars    == <<meals, aggregates, requests>>
goalVars   == <<users, profiles, goalVersions, goalOp>>
ledgerVars == <<sessions, saved_items, saveLog, ledgerOp>>
vars       == <<now, meals, aggregates, requests, users, profiles,
                goalVersions, goalOp, sessions, saved_items, saveLog, ledgerOp>>

\* SQL NULL / Python None: "None" in a text column, Null in a numeric one.
None == "None"
Null == -1
NoDay == -1
\* The outcome of a call that raises.
Raise == [raise |-> TRUE]
Raised(x) == "raise" \in DOMAIN x

(***************************************************************************)
(* Bounds                                                                  *)
(***************************************************************************)
NumUsers     == 2
MaxReqs      == 3     \* meal-logging requests
MaxAggTime   == 2     \* clock range of SpecAgg
MaxGoalOps   == 3     \* profile / goal operations
MaxGoalTime  == 2     \* clock range of SpecGoals
MaxSessions  == 1     \* scan records
MaxLedgerOps == 4     \* saved-item operations
MaxLedgerTime == 3    \* clock range of SpecLedger

TicksPerDay == 2

Users == 1..NumUsers

Today == now \div TicksPerDay

Max(a, b) == IF a >= b THEN a ELSE b

(***************************************************************************)
(* Python dicts / JSONB objects are functions with a finite domain.        *)
(***************************************************************************)
DictGet(d, k, default) == IF k \in DOMAIN d THEN d[k] ELSE default

RECURSIVE SumOver(_, _)
SumOver(S, f) ==
    IF S = {} THEN 0
    ELSE LET x == CHOOSE y \in S : TRUE IN f[x] + SumOver(S \ {x}, f)

(***************************************************************************)
(* AggregateStore: daily_nutrition_aggregates and the meal-logging routes  *)
(***************************************************************************)
Nutrients == {"calories", "protein", "carbs", "fat", "fiber", "sugar"}

\* The nutrient deltas the meal-logging collaborator emits (grams in tenths).
Deltas ==
    { [calories |-> 100, protein |-> 25, carbs |-> 0,   fat |-> 10, fiber |-> 0,  sugar |-> 5],
      [calories |-> 50,  protein |-> 0,  carbs |-> 120, fat |-> 0,  fiber |-> 15, sugar |-> 30] }

\* The dates a request can name.
Days(maxTime) == 0..(maxTime \div TicksPerDay)

\* The rows the ON CONFLICT (user_id, day_date) clause finds for a key.
ConflictRows_PlainInsert(tbl, user_id, day_date) == {}

ConflictRows(tbl, user_id, day_date) ==
    { r \in tbl : r.user_id = user_id /\ r.day_date = day_date }

\* jsonb_build_object(k, COALESCE(old->>k, 0) + COALESCE($k, 0)) over the six keys.
AddTotals_Overwrite(old, nutrients) ==
    [k \in Nutrients |-> DictGet(nutrients, k, 0)]

AddTotals(old, nutrients) ==
    [k \in Nutrients |-> DictGet(old, k, 0) + DictGet(nutrients, k, 0)]

\* meals_count = daily_nutrition_aggregates.meals_count + 1
NextMealsCount_Stuck(c) == c

NextMealsCount(c) == c + 1

\* INSERT ... VALUES ($1, $2, $3, 1, ...) ON CONFLICT (user_id, day_date) DO UPDATE SET ...
UpsertAggregate(tbl, user_id, day_date, nutrients) ==
    LET hit == ConflictRows(tbl, user_id, day_date) IN
    IF hit = {}
    THEN tbl \cup { [id |-> Cardinality(tbl) + 1, user_id |-> user_id,
                     day_date |-> day_date, totals |-> nutrients, meals_count |-> 1] }
    ELSE { IF r \in hit
           THEN [r EXCEPT !.totals = AddTotals(r.totals, nutrients),
                          !.meals_count = NextMealsCount(r.meals_count)]
           ELSE r : r \in tbl }

\* The requests that are between their two store calls.
InFlight == { i \in DOMAIN requests : requests[i].pc = "aggregate" }

\* POST /meals up to and including save_meal: the meal row is inserted.
\* overlaps records the requests in flight when this one arrived.
LogMealSaveMeal(u, nutrients) ==
    /\ Len(requests) < MaxReqs
    /\ meals' = meals \cup { [id |-> Len(requests) + 1, user_id |-> u,
                              day |-> Today, nutrients |-> nutrients] }
    /\ requests' = Append(requests, [endpoint |-> "log_meal", user_id |-> u, day |-> NoDay,
                                      nutrients |-> nutrients, pc |-> "aggregate",
                                      overlaps |-> InFlight])
    /\ UNCHANGED <<now, aggregates, goalVars, ledgerVars>>

\* POST /user/meals up to and including save_meal; the day comes from logged_at.
LogUserMealSaveMeal(u, day, nutrients) ==
    /\ Len(requests) < MaxReqs
    /\ meals' = meals \cup { [id |-> Len(requests) + 1, user_id |-> u,
                              day |-> day, nutrients |-> nutrients] }
    /\ requests' = Append(requests, [endpoint |-> "log_user_meal", user_id |-> u, day |-> day,
                                      nutrients |-> nutrients, pc |-> "aggregate",
                                      overlaps |-> InFlight])
    /\ UNCHANGED <<now, aggregates, goalVars, ledgerVars>>

\* save_meal raises (store unavailable): the request ends with a 500, nothing stored.
SaveMealFails(u, nutrients) ==
    /\ Len(requests) < MaxReqs
    /\ requests' = Append(requests, [endpoint |-> "log_meal", user_id |-> u, day |-> NoDay,
                                      nutrients |-> nutrients, pc |-> "error",
                                      overlaps |-> InFlight])
    /\ UNCHANGED <<now, meals, aggregates, goalVars, ledgerVars>>

\* The key update_daily_aggregate is called with: log_meal reads the clock at the call.
RequestDay(req) == IF req.endpoint = "log_meal" THEN Today ELSE req.day

\* update_daily_aggregate: one INSERT ... ON CONFLICT statement, then the route returns.
UpdateDailyAggregate(i) ==
    /\ requests[i].pc = "aggregate"
    /\ aggregates' = UpsertAggregate(aggregates, requests[i].user_id,
                                     RequestDay(requests[i]), requests[i].nutrients)
    /\ requests' = [requests EXCEPT ![i].pc = "done", ![i].day = RequestDay(requests[i])]
    /\ UNCHANGED <<now, meals, goalVars, ledgerVars>>

\* update_daily_aggregate raises (store unavailable): the route answers 500.
UpdateDailyAggregateFails(i) ==
    /\ requests[i].pc = "aggregate"
    /\ requests' = [requests EXCEPT ![i].pc = "error", ![i].day = RequestDay(requests[i])]
    /\ UNCHANGED <<now, meals, aggregates, goalVars, ledgerVars>>

\* A JSON value of a request body: a number, or a string.
Num(n)  == [kind |-> "number", value |-> n]
Text(t) == [kind |-> "text", text |-> t]

\* float(str) / int(str): the strings Python can convert, and their value.
Converts(t) == t \in {"50", "0"}
ConvertText(t) == IF t = "50" THEN 50 ELSE 0

\* float(x or 0) / int(x or 0) of log_user_meal: Raise for a string that is no number.
StrictNumber(raw) ==
    IF raw.kind = "number" THEN raw.value
    ELSE IF raw.text = "" THEN 0
    ELSE IF Converts(raw.text) THEN ConvertText(raw.text) ELSE Null

\* safe_int / safe_float of log_meal and save_meal: the default 0 whenever the
\* conversion raises.
SafeNumber(raw) ==
    IF StrictNumber(raw) = Null THEN 0 ELSE StrictNumber(raw)

\* The calories and protein_g values clients send (the other nutrients are left out).
RawBodies ==
    { [calories |-> Num(100),    protein_g |-> Num(25)],
      [calories |-> Text("50"),  protein_g |-> Num(25)],
      [calories |-> Text("abc"), protein_g |-> Num(25)],
      [calories |-> Num(100),    protein_g |-> Text("abc")] }

NonNumeric(body) ==
    \E k \in DOMAIN body : body[k].kind = "text" /\ ~Converts(body[k].text)

\* POST /meals with a raw body, up to and including save_meal: every value goes
\* through safe_int / safe_float first.
LogMealBody(u, body) ==
    /\ Len(requests) < MaxReqs
    /\ LET nutrients == [k \in Nutrients |->
                           IF k = "calories" THEN SafeNumber(body.calories)
                           ELSE IF k = "protein" THEN SafeNumber(body.protein_g) ELSE 0]
       IN  /\ meals' = meals \cup { [id |-> Len(requests) + 1, user_id |-> u,
                                      day |-> Today, nutrients |-> nutrients] }
           /\ requests' = Append(requests,
                                 [endpoint |-> "log_meal", user_id |-> u, day |-> NoDay,
                                  nutrients |-> nutrients, pc |-> "aggregate",
                                  overlaps |-> InFlight, body |-> body])
    /\ UNCHANGED <<now, aggregates, goalVars, ledgerVars>>

\* POST /user/meals with a raw nutrition_data: save_meal stores the meal (safe_int of
\* calories; protein is read from the key "protein", which this body lacks), then the
\* handler converts with int() / float(); a ValueError ends the request with a 500.
LogUserMealBody(u, day, body) ==
    /\ Len(requests) < MaxReqs
    /\ LET stored == [k \in Nutrients |->
                        IF k = "calories" THEN SafeNumber(body.calories) ELSE 0]
           raises == StrictNumber(body.calories) = Null \/ StrictNumber(body.protein_g) = Null
           nutrients == [k \in Nutrients |->
                           IF k = "calories" THEN SafeNumber(body.calories)
                           ELSE IF k = "protein" THEN SafeNumber(body.protein_g) ELSE 0]
       IN  /\ meals' = meals \cup { [id |-> Len(requests) + 1, user_id |-> u,
                                      day |-> day, nutrients |-> stored] }
           /\ requests' = Append(requests,
                                 [endpoint |-> "log_user_meal", user_id |-> u, day |-> day,
                                  nutrients |-> nutrients,
                                  pc |-> IF raises THEN "error" ELSE "aggregate",
                                  overlaps |-> InFlight, body |-> body])
    /\ UNCHANGED <<now, aggregates, goalVars, ledgerVars>>

\* The service whose connect() failed at startup (self.pool is None; the server keeps
\* running). A meal-logging route: verify_token returns None without a pool, the route
\* answers 401 before any store call.
LogMealNoPool(u, nutrients) ==
    /\ Len(requests) < MaxReqs
    /\ requests' = Append(requests, [endpoint |-> "log_meal", user_id |-> u, day |-> NoDay,
                                      nutrients |-> nutrients, pc |-> "unauthenticated",
                                      overlaps |-> InFlight])
    /\ UNCHANGED <<now, meals, aggregates, goalVars, ledgerVars>>

\* save_meal(meal_data) without a pool: raise RuntimeError("Database not connected").
SaveMealNoPool(u, nutrients) ==
    /\ Len(requests) < MaxReqs
    /\ requests' = Append(requests, [endpoint |-> "save_meal", user_id |-> u, day |-> NoDay,
                                      nutrients |-> nutrients, pc |-> "raised",
                                      overlaps |-> InFlight])
    /\ UNCHANGED <<now, meals, aggregates, goalVars, ledgerVars>>

\* update_daily_aggregate(user_id, day_date, nutrients) without a pool:
\* `if not self.pool: return`; the call returns None and no statement is executed.
UpdateDailyAggregateNoPool(u, day, nutrients) ==
    /\ Len(requests) < MaxReqs
    /\ requests' = Append(requests, [endpoint |-> "update_daily_aggregate", user_id |-> u,
                                      day |-> day, nutrients |-> nutrients,
                                      pc |-> "returned", overlaps |-> InFlight])
    /\ UNCHANGED <<now, meals, aggregates, goalVars, ledgerVars>>

\* What delete_meal does to daily_nutrition_aggregates: it has no statement on that
\* table, so the rows of the deleted meals' days stay as they are.
AggregatesAfterDeleteMeal_Reversed(tbl, deleted) ==
    { IF \E m \in deleted : m.user_id = r.user_id /\ m.day = r.day_date
      THEN LET m == CHOOSE x \in deleted : x.user_id = r.user_id /\ x.day = r.day_date
           IN  [r EXCEPT !.totals = [k \in Nutrients |-> DictGet(r.totals, k, 0)
                                                          - DictGet(m.nutrients, k, 0)],
                         !.meals_count = r.meals_count - 1]
      ELSE r : r \in tbl }

AggregatesAfterDeleteMeal(tbl, deleted) == tbl

\* DELETE /user/meals/{meal_id}: DELETE FROM meals WHERE id = $1 AND user_id = $2;
\* 404 when no row was deleted.
DeleteMeal(u, meal_id) ==
    /\ Len(requests) < MaxReqs
    /\ LET deleted == { m \in meals : m.id = meal_id /\ m.user_id = u } IN
       /\ meals' = meals \ deleted
       /\ aggregates' = AggregatesAfterDeleteMeal(aggregates, deleted)
       /\ requests' = Append(requests,
                             [endpoint |-> "delete_meal", user_id |-> u, day |-> NoDay,
                              nutrients |-> [k \in Nutrients |-> 0],
                              pc |-> IF deleted # {} THEN "deleted" ELSE "not_found",
                              overlaps |-> InFlight, meal_id |-> meal_id])
    /\ UNCHANGED <<now, goalVars, ledgerVars>>

\* The clock advances.
Tick(maxTime) ==
    /\ now < maxTime
    /\ now' = now + 1
    /\ UNCHANGED <<aggVars, goalVars, ledgerVars>>

(***************************************************************************)
(* GoalCalculator: gpt_model/gptapi.py                                     *)
(* Exact rationals: BMR in quarters, activity multiplier in 40ths, calorie *)
(* adjustment in 20ths, so the calorie target is CaloriesNum / CaloriesDen.*)
(***************************************************************************)
GoalKeys == {"calories", "protein", "carbs", "fat", "fiber", "sugar", "saturated_fat"}

\* Python round(x) for x = num / den >= 0: nearest integer, ties to even.
RoundHalfEven(num, den) ==
    LET q == num \div den
        r2 == 2 * (num % den)
    IN  IF r2 < den THEN q
        ELSE IF r2 > den THEN q + 1
        ELSE IF q % 2 = 0 THEN q ELSE q + 1

\* Bmr4 with the female offset applied to every gender.
Bmr4_FemaleOffset(gender, weight, height, age) ==
    40 * weight + 25 * height - 20 * age - 644

\* 4 * BMR (Mifflin-St Jeor): 10*weight + 6.25*height - 5*age + {5, -161, -78}
Bmr4(gender, weight, height, age) ==
    40 * weight + 25 * height - 20 * age
      + (IF gender = "male" THEN 20 ELSE IF gender = "female" THEN -644 ELSE -312)

\* 40 * multipliers.get(activity, 1.55)
Multiplier40(activity) ==
    CASE activity = "sedentary"   -> 48
      [] activity = "light"       -> 55
      [] activity = "moderate"    -> 62
      [] activity = "active"      -> 69
      [] activity = "very_active" -> 76
      [] OTHER                    -> 62

\* 20 * (0.80 for weight loss, 1.15 for weight gain, else 1)
Adjust20(goals) ==
    IF "weight loss" \in goals THEN 16
    ELSE IF "weight gain" \in goals THEN 23 ELSE 20

CaloriesDen == 3200
CaloriesNum(gender, weight, height, age, activity, goals) ==
    Bmr4(gender, weight, height, age) * Multiplier40(activity) * Adjust20(goals)

\* 10 * protein_per_kg
ProteinPerKg10(goals) ==
    IF "muscle building" \in goals THEN 18
    ELSE IF "weight loss" \in goals THEN 14 ELSE 8

\* _calculate_fallback_goals; Raise where Python raises TypeError on a None operand.
FallbackGoals(age, gender, weight, height, activity, conditions, goals) ==
    IF age = Null \/ weight = Null \/ height = Null THEN Raise
    ELSE
    LET calN     == CaloriesNum(gender, weight, height, age, activity, goals)
        protein10 == weight * ProteinPerKg10(goals)
        diabetic == "diabetes" \in conditions
        \* carb_pct / (carb_pct + fat_pct) and fat_pct / (carb_pct + fat_pct)
        carbN    == IF diabetic THEN 8 ELSE 5
        fatN     == IF diabetic THEN 7 ELSE 3
        shareD   == IF diabetic THEN 15 ELSE 8
        \* remaining_calories = calories - protein * 4, over CaloriesDen
        remN     == calN - 4 * protein10 * (CaloriesDen \div 10)
    IN  [ calories      |-> RoundHalfEven(calN, CaloriesDen),
          protein       |-> RoundHalfEven(protein10, 10),
          carbs         |-> RoundHalfEven(remN * carbN, CaloriesDen * shareD * 4),
          fat           |-> RoundHalfEven(remN * fatN, CaloriesDen * shareD * 9),
          fiber         |-> IF diabetic THEN 35 ELSE 28,
          sugar         |-> IF diabetic THEN 25
                            ELSE IF gender = "male" THEN 90 ELSE 75,
          saturated_fat |-> RoundHalfEven(calN, CaloriesDen * 90),
          reasoning     |-> "fallback" ]

\* The defaults of data.get(k, default) when the collaborator's answer is accepted.
AnswerDefaults ==
    [ calories |-> 2000, protein |-> 50, carbs |-> 275, fat |-> 65,
      fiber |-> 28, sugar |-> 50, saturated_fat |-> 20 ]

\* What the goal-refinement collaborator can do: no client configured, the call or the
\* parse fails (no JSON object in the text included), or a JSON object comes back:
\* complete, with fields missing, or with a field int() cannot convert (non_numeric).
AIOutcomes ==
    { [kind |-> "no_client"], [kind |-> "error"],
      [kind |-> "answer",
       data |-> [ calories |-> 2200, protein |-> 60, carbs |-> 250, fat |-> 70,
                  fiber |-> 30, sugar |-> 40, saturated_fat |-> 22 ]],
      [kind |-> "answer", data |-> [ calories |-> 1800 ]],
      [kind |-> "answer",
       data |-> [ calories |-> 2100, protein |-> 0, carbs |-> 260, fat |-> 60,
                  fiber |-> 30, sugar |-> 40, saturated_fat |-> 21 ],
       non_numeric |-> {"protein"}] }

\* int(data.get(k, default)) raises for some key: the except clause takes over.
ConversionRaises(ai) ==
    \E k \in DOMAIN ai.data : k \in DictGet(ai, "non_numeric", {})

\* The goal strings generate_personalized_nutrition_goals derives from profile["goals"].
GoalStrings(profile) ==
    (IF profile.weight_goal = "loss" THEN {"weight loss"}
     ELSE IF profile.weight_goal = "gain" THEN {"weight gain"} ELSE {})
    \cup (IF profile.muscle_building THEN {"muscle building"} ELSE {})

ConditionStrings(profile) == IF profile.has_diabetes THEN {"diabetes"} ELSE {}

\* generate_personalized_nutrition_goals(user_profile) with the collaborator doing ai.
\* When user_profile is dict(row) every key is present, so .get(k, default) yields the
\* column's value, None included; the default is used only for an absent key.
GenerateGoals(profile, ai) ==
    IF ai.kind \in {"no_client", "error"} \/ ConversionRaises(ai)
    THEN FallbackGoals(DictGet(profile, "age", 30), DictGet(profile, "gender", "other"),
                       DictGet(profile, "weight_kg", 70), DictGet(profile, "height_cm", 170),
                       DictGet(profile, "activity_level", "moderate"),
                       ConditionStrings(profile), GoalStrings(profile))
    ELSE [k \in GoalKeys |-> DictGet(ai.data, k, AnswerDefaults[k])] @@ [reasoning |-> "ai"]

\* The profiles the goal calculator is called with: rows of user_health_profiles (any
\* of age, gender, height, weight, activity NULL) and dicts that lack those keys.
CalcProfiles ==
    { [ age |-> a, gender |-> g, height_cm |-> h, weight_kg |-> w, activity_level |-> act,
        has_diabetes |-> d, weight_goal |-> wg, muscle_building |-> mb ] :
        a \in {Null, 30, 45}, g \in {None, "male", "female", "other"},
        h \in {Null, 175, 160}, w \in {Null, 70, 60},
        act \in {None, "sedentary", "moderate", "very_active", "unknown"},
        d \in BOOLEAN, wg \in {"maintain", "loss", "gain"}, mb \in BOOLEAN }
    \cup
    { [ has_diabetes |-> d, weight_goal |-> wg, muscle_building |-> FALSE ] :
        d \in BOOLEAN, wg \in {"maintain", "loss", "gain"} }

\* A call of generate_personalized_nutrition_goals(user_profile); goalOp keeps the
\* arguments and what the call returned (Raise: it raised).
GeneratePersonalizedNutritionGoals ==
    /\ goalOp.op = "call_generate_personalized_nutrition_goals"
    /\ goalOp' = [ seq |-> goalOp.seq, op |-> "generate_personalized_nutrition_goals",
                   profile |-> goalOp.profile, ai |-> goalOp.ai,
                   result |-> GenerateGoals(goalOp.profile, goalOp.ai) ]
    /\ UNCHANGED <<now, users, profiles, goalVersions, aggVars, ledgerVars>>

(***************************************************************************)
(* HealthProfile and GoalVersionStore: user_health_profiles and            *)
(* user_nutrition_goals                                                    *)
(***************************************************************************)
\* The profile_data bodies the profile owner sends (after safe_int / safe_str / ...).
ProfileInputs ==
    { [ age |-> 30, gender |-> "male", height_cm |-> 175, weight_kg |-> 70,
        activity_level |-> "moderate", has_diabetes |-> FALSE,
        weight_goal |-> "maintain", muscle_building |-> FALSE ],
      [ age |-> Null, gender |-> None, height_cm |-> Null, weight_kg |-> Null,
        activity_level |-> None, has_diabetes |-> TRUE,
        weight_goal |-> "loss", muscle_building |-> FALSE ],
      [ age |-> 45, gender |-> "female", height_cm |-> 160, weight_kg |-> 60,
        activity_level |-> "sedentary", has_diabetes |-> FALSE,
        weight_goal |-> "gain", muscle_building |-> TRUE ] }

CoalesceNum(new, old) == IF new # Null THEN new ELSE old
CoalesceStr(new, old) == IF new # None THEN new ELSE old

\* INSERT INTO user_health_profiles ... ON CONFLICT (user_id) DO UPDATE SET ...
UpsertProfile(tbl, u, data) ==
    IF tbl[u].present
    THEN [tbl EXCEPT ![u] =
            [ present |-> TRUE,
              age |-> CoalesceNum(data.age, tbl[u].age),
              gender |-> CoalesceStr(data.gender, tbl[u].gender),
              height_cm |-> CoalesceNum(data.height_cm, tbl[u].height_cm),
              weight_kg |-> CoalesceNum(data.weight_kg, tbl[u].weight_kg),
              activity_level |-> CoalesceStr(data.activity_level, tbl[u].activity_level),
              has_diabetes |-> data.has_diabetes,
              weight_goal |-> data.weight_goal,
              muscle_building |-> data.muscle_building ]]
    ELSE [tbl EXCEPT ![u] = data @@ [present |-> TRUE]]

NoProfile ==
    [ present |-> FALSE, age |-> Null, gender |-> None, height_cm |-> Null,
      weight_kg |-> Null, activity_level |-> None, has_diabetes |-> FALSE,
      weight_goal |-> "maintain", muscle_building |-> FALSE ]

\* weekly / monthly / yearly = {k: v * 7 / 30 / 365 for k, v in daily.items()}
ScaleGoals_CaloriesOnly(daily, factor) ==
    [k \in GoalKeys |-> IF k = "calories" THEN daily[k] * factor ELSE daily[k]]

ScaleGoals(daily, factor) == [k \in GoalKeys |-> daily[k] * factor]

\* NewGoalVersion with the row dated one day before its insertion.
NewGoalVersion_Backdated(id, u, daily_goals, date) ==
    LET daily == [k \in GoalKeys |-> DictGet(daily_goals, k, AnswerDefaults[k])] IN
    [ id |-> id, user_id |-> u, effective_from |-> date - 1,
      daily |-> daily, weekly |-> ScaleGoals(daily, 7),
      monthly |-> ScaleGoals(daily, 30), yearly |-> ScaleGoals(daily, 365),
      reasoning |-> DictGet(daily_goals, "reasoning", "ai") ]

\* The row save_user_nutrition_goals inserts, effective_from = CURRENT_DATE.
NewGoalVersion(id, u, daily_goals, date) ==
    LET daily == [k \in GoalKeys |-> DictGet(daily_goals, k, AnswerDefaults[k])] IN
    [ id |-> id, user_id |-> u, effective_from |-> date,
      daily |-> daily, weekly |-> ScaleGoals(daily, 7),
      monthly |-> ScaleGoals(daily, 30), yearly |-> ScaleGoals(daily, 365),
      reasoning |-> DictGet(daily_goals, "reasoning", "ai") ]

\* INSERT INTO user_nutrition_goals (...) VALUES (...): earlier rows are left alone.
InsertGoalVersion_Replace(tbl, row) ==
    { r \in tbl : r.user_id # row.user_id } \cup {row}

InsertGoalVersion(tbl, row) == tbl \cup {row}

\* create_health_profile(user_id, profile_data). fail names the store call that raises
\* ("none": no call raises); ai is what the goal-refinement collaborator does.
ProfileFailures == {"none", "upsert", "get_profile", "save_goals"}

CreateHealthProfile(u, data, ai, fail) ==
    /\ u \in users
    /\ goalOp.seq < MaxGoalOps
    /\ LET upserted     == UpsertProfile(profiles, u, data)
           full_profile == upserted[u]
           daily_goals  == GenerateGoals(full_profile, ai)
           saved        == fail = "none" /\ ~Raised(daily_goals)
           ret          == fail # "upsert"
       IN  /\ profiles' = IF ret THEN upserted ELSE profiles
           /\ goalVersions' =
                IF saved
                THEN InsertGoalVersion(goalVersions,
                         NewGoalVersion(goalOp.seq + 1, u, daily_goals, Today))
                ELSE goalVersions
           /\ goalOp' = [ seq |-> goalOp.seq + 1, op |-> "create_health_profile",
                          user_id |-> u, ret |-> ret, date |-> Today ]
    /\ UNCHANGED <<now, users, aggVars, ledgerVars>>

\* SELECT * FROM user_nutrition_goals WHERE user_id = $1 AND effective_from <= $2
GoalRowsUpTo_Strict(tbl, u, for_date) ==
    { r \in tbl : r.user_id = u /\ r.effective_from < for_date }

GoalRowsUpTo(tbl, u, for_date) ==
    { r \in tbl : r.user_id = u /\ r.effective_from <= for_date }

\* ORDER BY effective_from DESC LIMIT 1: the rows that can come first.
FirstByEffectiveFromDesc(rows) ==
    { r \in rows : \A q \in rows : q.effective_from <= r.effective_from }

Periods == {"daily", "weekly", "monthly", "yearly", "hourly"}

\* prefix = period if it is one of the four known periods, else "daily"
PeriodPrefix(period) ==
    IF period \in {"daily", "weekly", "monthly", "yearly"} THEN period ELSE "daily"

\* The dict get_user_nutrition_goals builds from the selected row.
GoalsResponse(row, period) ==
    LET prefix == PeriodPrefix(period) IN
    [k \in GoalKeys |-> row[prefix][k]]
      @@ [period |-> prefix, effective_from |-> row.effective_from,
          reasoning |-> row.reasoning]

\* get_user_nutrition_goals(user_id, for_date, period); the row it selected is kept
\* next to the response.
GetUserNutritionGoals(u, for_date, period) ==
    /\ u \in users
    /\ goalOp.seq < MaxGoalOps
    /\ LET first == FirstByEffectiveFromDesc(GoalRowsUpTo(goalVersions, u, for_date)) IN
       \/ /\ first = {}
          /\ goalOp' = [ seq |-> goalOp.seq + 1, op |-> "get_user_nutrition_goals",
                         user_id |-> u, date |-> for_date, period |-> period,
                         found |-> FALSE ]
       \/ \E row \in first :
            goalOp' = [ seq |-> goalOp.seq + 1, op |-> "get_user_nutrition_goals",
                        user_id |-> u, date |-> for_date, period |-> period,
                        found |-> TRUE, row |-> row,
                        result |-> GoalsResponse(row, period) ]
    /\ UNCHANGED <<now, users, profiles, goalVersions, aggVars, ledgerVars>>

\* delete_user(user_id): eight DELETE statements, each committed on its own; done is the
\* number that ran before one raised (8: none raised, the call returns True).
\*   1 meal_items  2 meals  3 scan_history  4 saved_foods  5 user_nutrition_goals
\*   6 user_health_profiles  7 sessions  8 users
DeleteStatements == 8

DeleteUser(u, done) ==
    /\ u \in users
    /\ goalOp.seq < MaxGoalOps
    /\ meals' = IF done >= 2 THEN { m \in meals : m.user_id # u } ELSE meals
    /\ goalVersions' = IF done >= 5 THEN { r \in goalVersions : r.user_id # u }
                       ELSE goalVersions
    /\ profiles' = IF done >= 6 THEN [profiles EXCEPT ![u] = NoProfile] ELSE profiles
    /\ sessions' = IF done >= 7 THEN { s \in sessions : s.user_id # u } ELSE sessions
    /\ users' = IF done >= DeleteStatements THEN users \ {u} ELSE users
    /\ goalOp' = [ seq |-> goalOp.seq + 1, op |-> "delete_user", user_id |-> u,
                   ret |-> (done >= DeleteStatements) ]
    /\ UNCHANGED <<now, aggregates, requests, saved_items, saveLog, ledgerOp>>

\* What get_user_nutrition_goals(user_id, for_date, period) can return: the response
\* built from a first row, or None (found = FALSE) when the query has no row.
NoGoals == [found |-> FALSE]

StoredGoals(u, for_date, period) ==
    LET first == FirstByEffectiveFromDesc(GoalRowsUpTo(goalVersions, u, for_date)) IN
    IF first = {} THEN {NoGoals}
    ELSE { GoalsResponse(row, period) @@ [found |-> TRUE] : row \in first }

\* get_daily_aggregate(user_id, day_date): the row's totals, zeros when there is no row.
DailyTotals(u, day) ==
    LET rows == { r \in aggregates : r.user_id = u /\ r.day_date = day } IN
    IF rows = {} THEN [k \in Nutrients |-> 0]
    ELSE (CHOOSE r \in rows : TRUE).totals

\* goals.get(k, default) of GET /summary/daily
SummaryGoalDefaults ==
    [ calories |-> 2000, protein |-> 50, carbs |-> 250, fat |-> 65, fiber |-> 25 ]

\* GET /summary/daily: goals = get_user_nutrition_goals(user_id, period="daily") or {}
GetDailySummary(u) ==
    /\ u \in users
    /\ goalOp.seq < MaxGoalOps
    /\ \E goals \in StoredGoals(u, Today, "daily") :
         goalOp' = [ seq |-> goalOp.seq + 1, op |-> "get_daily_summary", user_id |-> u,
                     date |-> Today, found |-> goals.found,
                     consumed |-> [k \in DOMAIN SummaryGoalDefaults |->
                                      DictGet(DailyTotals(u, Today), k, 0)],
                     goals |-> [k \in DOMAIN SummaryGoalDefaults |->
                                   DictGet(goals, k, SummaryGoalDefaults[k])] ]
    /\ UNCHANGED <<now, users, profiles, goalVersions, aggVars, ledgerVars>>

\* get_daily_aggregates_range(user_id, from_date, to_date): the rows that exist.
AggregatesRange(u, from_date, to_date) ==
    { r \in aggregates : r.user_id = u /\ r.day_date >= from_date /\ r.day_date <= to_date }

\* totals[key] += agg_totals.get(key, 0) over the rows of a range
RangeTotals(rows, keys) ==
    [k \in keys |-> SumOver(rows, [r \in rows |-> DictGet(r.totals, k, 0)])]

\* default_goals of _calculate_daily_goals_async
DefaultGoals ==
    [ calories |-> 2000, protein |-> 50, carbs |-> 275, fat |-> 65,
      fiber |-> 28, sugar |-> 50, saturated_fat |-> 20 ]

\* The except branch of _calculate_daily_goals_async ("basic Harris-Benedict"), with
\* health_profile.get(k) or default; BMR in thousandths, multiplier in 40ths.
HarrisBenedictGoals(profile) ==
    LET weight   == IF profile.weight_kg = Null THEN 70 ELSE profile.weight_kg
        height   == IF profile.height_cm = Null THEN 170 ELSE profile.height_cm
        age      == IF profile.age = Null THEN 30 ELSE profile.age
        gender   == IF profile.gender = None THEN "other" ELSE profile.gender
        activity == IF profile.activity_level = None THEN "moderate"
                    ELSE profile.activity_level
        bmr1000  == IF gender = "male"
                    THEN 88362 + 13397 * weight + 4799 * height - 5677 * age
                    ELSE IF gender = "female"
                    THEN 447593 + 9247 * weight + 3098 * height - 4330 * age
                    ELSE 300000 + 10000 * weight + 4000 * height - 5000 * age
        calN     == bmr1000 * Multiplier40(activity)
    IN  [ calories |-> RoundHalfEven(calN, 40000),
          protein  |-> RoundHalfEven(8 * weight, 10),
          carbs    |-> RoundHalfEven(calN, 40000 * 8),
          fat      |-> RoundHalfEven(calN, 40000 * 30),
          fiber |-> 28, sugar |-> 50, saturated_fat |-> 20 ]

\* _calculate_daily_goals_async(user_id, health_profile): the stored daily goals of
\* today's version; without one, default_goals when there is no profile, else the
\* generated goals, else (the generator raised) the Harris-Benedict figures.
CalculateDailyGoalsAsync(u, ai) ==
    { IF stored.found THEN [k \in GoalKeys |-> stored[k]]
      ELSE IF ~profiles[u].present THEN DefaultGoals
      ELSE LET goals == GenerateGoals(profiles[u], ai) IN
           IF Raised(goals) THEN HarrisBenedictGoals(profiles[u])
           ELSE [k \in GoalKeys |-> goals[k]]
      : stored \in StoredGoals(u, Today, "daily") }

\* _get_period_multiplier(period)
PeriodMultiplier(period) ==
    CASE period = "today"   -> 1
      [] period = "daily"   -> 1
      [] period = "weekly"  -> 7
      [] period = "monthly" -> 30
      [] period = "yearly"  -> 365
      [] period = "all"     -> 1
      [] OTHER              -> 1

SummaryPeriods == {"today", "weekly", "monthly", "yearly"}

\* DatabaseService.get_comprehensive_nutrition(user_id, period): the goals part of the
\* dict it returns (the macro and micro sums come from the meal and scan rows).
GetComprehensiveNutrition(u, period, ai) ==
    /\ u \in users
    /\ goalOp.seq < MaxGoalOps
    /\ \E daily_goals \in CalculateDailyGoalsAsync(u, ai) :
         goalOp' = [ seq |-> goalOp.seq + 1, op |-> "get_comprehensive_nutrition",
                     user_id |-> u, period |-> period, date |-> Today,
                     daily_goals |-> daily_goals,
                     period_multiplier |-> PeriodMultiplier(period),
                     period_goals |-> [k \in DOMAIN daily_goals |->
                                          daily_goals[k] * PeriodMultiplier(period)] ]
    /\ UNCHANGED <<now, users, profiles, goalVersions, aggVars, ledgerVars>>

\* period_multiplier of GET /user/comprehensive-nutrition
RoutePeriodMultiplier(period) ==
    IF period = "week" \/ period = "weekly" THEN 7
    ELSE IF period = "month" \/ period = "monthly" THEN 30
    ELSE 1

\* The first day of the range GET /user/comprehensive-nutrition sums for a period.
RouteRangeStart(period, today) ==
    CASE period \in {"today", "daily"}  -> today
      [] period \in {"week", "weekly"}  -> today - 6
      [] period \in {"month", "monthly"} -> today - 29
      [] period \in {"year", "yearly"}  -> today - 364
      [] period = "all"                  -> today - 3650
      [] OTHER                           -> today + 1

\* goals fallback of the route, then goals.get(k, default) for daily_goals
RouteGoalFallback ==
    [ calories |-> 2000, protein |-> 50, carbs |-> 250, fat |-> 65, fiber |-> 25 ]

RouteDailyGoals(goals) ==
    [ calories |-> DictGet(goals, "calories", 2000), protein |-> DictGet(goals, "protein", 50),
      carbs |-> DictGet(goals, "carbs", 275), fat |-> DictGet(goals, "fat", 65),
      fiber |-> DictGet(goals, "fiber", 28), sugar |-> 50, saturated_fat |-> 20 ]

\* GET /user/comprehensive-nutrition?period=...
ComprehensiveNutritionRoute(u, period) ==
    /\ u \in users
    /\ goalOp.seq < MaxGoalOps
    /\ \E stored \in StoredGoals(u, Today, "daily") :
         LET goals       == IF stored.found THEN stored ELSE RouteGoalFallback
             daily_goals == RouteDailyGoals(goals)
             totals      == IF period \in {"today", "daily"}
                            THEN DailyTotals(u, Today)
                            ELSE RangeTotals(AggregatesRange(u, RouteRangeStart(period, Today),
                                                             Today), GoalKeys)
         IN  goalOp' = [ seq |-> goalOp.seq + 1, op |-> "comprehensive_nutrition_route",
                         user_id |-> u, period |-> period, date |-> Today,
                         macros |-> [k \in GoalKeys |-> DictGet(totals, k, 0)],
                         daily_goals |-> daily_goals,
                         period_multiplier |-> RoutePeriodMultiplier(period),
                         period_goals |-> [k \in DOMAIN daily_goals |->
                                              daily_goals[k] * RoutePeriodMultiplier(period)] ]
    /\ UNCHANGED <<now, users, profiles, goalVersions, aggVars, ledgerVars>>

\* The rows of a range in ORDER BY day_date ASC.
RECURSIVE OrderByDay(_)
OrderByDay(rows) ==
    IF rows = {} THEN <<>>
    ELSE LET first == CHOOSE r \in rows : \A q \in rows : r.day_date <= q.day_date
         IN  <<first>> \o OrderByDay(rows \ {first})

WeeklyKeys == {"calories", "protein", "carbs", "fat", "fiber"}

\* GET /summary/weekly: the rows of the last seven days, their sums and averages.
\* daily_averages are kept in tenths (round(v / days_count, 1)).
GetWeeklySummary(u) ==
    /\ LET week_start == Today - 6
           rows       == AggregatesRange(u, week_start, Today)
           totals     == RangeTotals(rows, WeeklyKeys)
           ordered    == OrderByDay(rows)
           days_count == Max(Cardinality(rows), 1)
       IN  goalOp' = [ seq |-> goalOp.seq, op |-> "get_weekly_summary", user_id |-> u,
                       date |-> Today, period_start |-> week_start,
                       totals |-> totals,
                       daily_averages10 |->
                           [k \in WeeklyKeys |-> RoundHalfEven(10 * totals[k], days_count)],
                       daily_breakdown |->
                           [i \in DOMAIN ordered |->
                               [ date |-> "",
                                 calories |-> DictGet(ordered[i].totals, "calories", 0),
                                 protein |-> DictGet(ordered[i].totals, "protein", 0),
                                 carbs |-> DictGet(ordered[i].totals, "carbs", 0),
                                 fat |-> DictGet(ordered[i].totals, "fat", 0) ]],
                       days_tracked |-> days_count ]
    /\ UNCHANGED <<now, users, profiles, goalVersions, aggVars, ledgerVars>>

\* _db_service.save_nutrition_goals(user_id, goals, "daily"): DatabaseService defines
\* no attribute of that name, so evaluating the call raises AttributeError.
SaveNutritionGoals(tbl, u, goals) == Raise

\* POST /user/generate-goals: 400 without a health profile; otherwise the goals are
\* generated and handed to save_nutrition_goals; any exception becomes a 500.
GenerateAiGoals(u, ai) ==
    /\ u \in users
    /\ goalOp.seq < MaxGoalOps
    /\ LET profile  == profiles[u]
           ai_goals == GenerateGoals(profile, ai)
           saved    == IF Raised(ai_goals) THEN Raise
                       ELSE SaveNutritionGoals(goalVersions, u, DictGet(ai_goals, "daily", <<>>))
           status   == IF ~profile.present THEN 400
                       ELSE IF Raised(saved) THEN 500 ELSE 200
       IN  /\ goalVersions' = IF status = 200 THEN saved ELSE goalVersions
           /\ goalOp' = [ seq |-> goalOp.seq + 1, op |-> "generate_ai_goals", user_id |-> u,
                          status |-> status, date |-> Today ]
    /\ UNCHANGED <<now, users, profiles, aggVars, ledgerVars>>

(***************************************************************************)
(* InventoryLedger: saved_items, routers/saved.py and routers/users.py     *)
(***************************************************************************)
SessionIds == 1..MaxSessions

\* What the scan collaborator reports: freshness percentage and normalized level.
FreshnessResults ==
    { [percentage |-> 80, level_normalized |-> "fresh"],
      [percentage |-> 40, level_normalized |-> "mid_fresh"],
      [percentage |-> 10, level_normalized |-> "not_fresh"] }

StorageTypes == {"fridge", "freezer", "pantry"}

\* save_session: the scan collaborator stores a scan record.
ScanFood(u, freshness) ==
    /\ Cardinality(sessions) < MaxSessions
    /\ sessions' = sessions \cup
         { [session_id |-> Cardinality(sessions) + 1, user_id |-> u, freshness |-> freshness] }
    /\ UNCHANGED <<now, saved_items, saveLog, ledgerOp, aggVars, goalVars>>

\* get_session(session_id): the rows of that id (none: the call returns None).
GetSession(tbl, session_id) == { s \in tbl : s.session_id = session_id }

BaseDays(freshness_level) ==
    CASE freshness_level = "fresh"     -> 7
      [] freshness_level = "mid_fresh" -> 4
      [] freshness_level = "not_fresh" -> 1
      [] OTHER                         -> 5

\* 10 * storage_multiplier.get(storage_type, 1)
StorageMultiplier10(storage_type) ==
    CASE storage_type = "freezer" -> 40
      [] storage_type = "fridge"  -> 10
      [] storage_type = "pantry"  -> 7
      [] OTHER                    -> 10

\* _estimate_expiration_days: max(1, int(base * mult))
EstimateExpirationDays(freshness_level, storage_type) ==
    Max(1, (BaseDays(freshness_level) * StorageMultiplier10(storage_type)) \div 10)

\* The rows ON CONFLICT (user_id, session_id) finds in saved_items.
SavedRows(tbl, u, session_id) ==
    { r \in tbl : r.user_id = u /\ r.session_id = session_id }

\* save_to_storage: INSERT INTO saved_items (user_id, session_id, is_risky,
\* health_warning, saved_at) ... ON CONFLICT (user_id, session_id) DO UPDATE SET ...
SaveToStorage(tbl, id, saved_item, at) ==
    LET hit      == SavedRows(tbl, saved_item.user_id, saved_item.session_id)
        is_risky == DictGet(saved_item, "is_risky", FALSE)
        warning  == DictGet(saved_item, "health_warning", None)
    IN  IF hit = {}
        THEN tbl \cup { [ id |-> id, user_id |-> saved_item.user_id,
                          session_id |-> saved_item.session_id, is_risky |-> is_risky,
                          health_warning |-> warning, saved_at |-> at,
                          is_consumed |-> FALSE, consumed_at |-> Null ] }
        ELSE { IF r \in hit
               THEN [r EXCEPT !.is_risky = is_risky, !.health_warning = warning,
                              !.saved_at = at]
               ELSE r : r \in tbl }

\* UPDATE saved_items SET is_consumed = TRUE, consumed_at = NOW()
\* WHERE user_id = $1 AND session_id = $2
MarkConsumedRows(tbl, u, session_id, at) ==
    { IF r \in SavedRows(tbl, u, session_id)
      THEN [r EXCEPT !.is_consumed = TRUE, !.consumed_at = at]
      ELSE r : r \in tbl }

\* DELETE FROM saved_items WHERE user_id = $1 AND session_id = $2
DeleteSavedRows(tbl, u, session_id) == tbl \ SavedRows(tbl, u, session_id)

NoSave == [saved |-> FALSE]

\* POST /saved/add: add_to_saved(req), then save_to_storage(saved_item).
AddToSaved(u, session_id, storage_type) ==
    /\ ledgerOp.seq < MaxLedgerOps
    /\ LET found == GetSession(sessions, session_id) IN
       \/ /\ found = {}
          /\ ledgerOp' = [ seq |-> ledgerOp.seq + 1, op |-> "add_to_saved", user_id |-> u,
                           session_id |-> session_id, status |-> 404 ]
          /\ UNCHANGED <<saved_items, saveLog>>
       \/ \E session_data \in found :
            LET freshness_level == session_data.freshness.level_normalized
                freshness_pct   == session_data.freshness.percentage
                saved_item ==
                    [ user_id |-> u, session_id |-> session_id,
                      storage_type |-> storage_type,
                      freshness_percentage |-> freshness_pct,
                      initial_freshness |-> freshness_pct,
                      freshness_level |-> freshness_level,
                      estimated_expiration_days |->
                          EstimateExpirationDays(freshness_level, storage_type),
                      saved_at |-> now ]
            IN  /\ saved_items' = SaveToStorage(saved_items, ledgerOp.seq + 1, saved_item, now)
                /\ saveLog' = [saveLog EXCEPT ![<<u, session_id>>] =
                                    saved_item @@ [saved |-> TRUE]]
                /\ ledgerOp' = [ seq |-> ledgerOp.seq + 1, op |-> "add_to_saved",
                                 user_id |-> u, session_id |-> session_id, status |-> 200 ]
    /\ UNCHANGED <<now, sessions, aggVars, goalVars>>

\* POST /user/saved-foods: save_food_item(request) with a session_id in the body, then
\* save_to_storage(saved_item). There is no check that the session exists. schema.sql is
\* not part of the sources: when the session is missing the INSERT either stores the row
\* or violates a constraint (rejected), which save_to_storage turns into the id 0.
SaveFoodItem(u, session_id, storage_type, rejected) ==
    /\ ledgerOp.seq < MaxLedgerOps
    /\ LET found == GetSession(sessions, session_id) IN
       /\ rejected => found = {}
       /\ \E session_data \in (IF found = {} THEN {<< >>} ELSE found) :
            LET freshness_info  == DictGet(session_data, "freshness", << >>)
                freshness_pct   == DictGet(freshness_info, "percentage", 50)
                freshness_level == DictGet(freshness_info, "level_normalized", "fresh")
                saved_item ==
                    [ user_id |-> u, session_id |-> session_id,
                      storage_type |-> storage_type,
                      freshness_percentage |-> freshness_pct,
                      initial_freshness |-> freshness_pct,
                      freshness_level |-> freshness_level,
                      estimated_expiration_days |->
                          EstimateExpirationDays(freshness_level, storage_type),
                      saved_at |-> now ]
                stored == SaveToStorage(saved_items, ledgerOp.seq + 1, saved_item, now)
            IN  /\ saved_items' = IF rejected THEN saved_items ELSE stored
                /\ saveLog' = IF rejected THEN saveLog
                              ELSE [saveLog EXCEPT ![<<u, session_id>>] =
                                       saved_item @@ [saved |-> TRUE]]
                /\ ledgerOp' = [ seq |-> ledgerOp.seq + 1, op |-> "save_food_item",
                                 user_id |-> u, session_id |-> session_id, status |-> 200,
                                 id |-> IF rejected THEN 0
                                        ELSE (CHOOSE r \in SavedRows(stored, u, session_id) :
                                                 TRUE).id ]
    /\ UNCHANGED <<now, sessions, aggVars, goalVars>>

\* POST /user/saved/{session_id}/consumed: mark_item_consumed(user_id, session_id)
MarkItemConsumed(u, session_id) ==
    /\ ledgerOp.seq < MaxLedgerOps
    /\ saved_items' = MarkConsumedRows(saved_items, u, session_id, now)
    /\ ledgerOp' = [ seq |-> ledgerOp.seq + 1, op |-> "mark_item_consumed", user_id |-> u,
                     session_id |-> session_id,
                     ret |-> (SavedRows(saved_items, u, session_id) # {}) ]
    /\ UNCHANGED <<now, sessions, saveLog, aggVars, goalVars>>

RemoveReasons == {"consumed", "removed"}

\* POST /saved/remove: remove_from_storage(user_id, session_id, reason)
RemoveFromStorage(u, session_id, reason) ==
    /\ ledgerOp.seq < MaxLedgerOps
    /\ saved_items' = IF reason = "consumed"
                      THEN MarkConsumedRows(saved_items, u, session_id, now)
                      ELSE DeleteSavedRows(saved_items, u, session_id)
    /\ ledgerOp' = [ seq |-> ledgerOp.seq + 1, op |-> "remove_from_storage", user_id |-> u,
                     session_id |-> session_id, reason |-> reason,
                     ret |-> (SavedRows(saved_items, u, session_id) # {}) ]
    /\ UNCHANGED <<now, sessions, saveLog, aggVars, goalVars>>

\* get_saved_items(user_id): saved_items JOIN sessions; the dict built for each row.
SavedItemDict(r, s) ==
    [ id |-> r.session_id, session_id |-> r.session_id, freshness |-> s.freshness,
      freshness_percentage |-> s.freshness.percentage, saved_at |-> r.saved_at,
      is_consumed |-> r.is_consumed, consumed_at |-> r.consumed_at,
      is_risky |-> r.is_risky, health_warning |-> r.health_warning ]

GetSavedItems(u) ==
    { SavedItemDict(r, s) : <<r, s>> \in
        { p \in saved_items \X sessions :
            p[1].user_id = u /\ p[2].session_id = p[1].session_id } }

\* (datetime.now() - saved_at).days
DaysStored(saved_at, at) == (at - saved_at) \div TicksPerDay

\* 10 * decay_rates.get(storage_type, 3)
DecayRate10(storage_type) ==
    CASE storage_type = "freezer" -> 5
      [] storage_type = "fridge"  -> 30
      [] storage_type = "pantry"  -> 50
      [] OTHER                    -> 30

\* 10 * round(max(0, initial - days_stored * decay_rate), 1), as get_all_saved computes
\* it from the item dict.
CurrentFreshness10(item, at) ==
    LET initial == DictGet(item, "initial_freshness", 100)
        rate10  == DecayRate10(DictGet(item, "storage_type", "fridge"))
    IN  Max(0, 10 * initial - DaysStored(item.saved_at, at) * rate10)

\* GET /saved/all
GetAllSaved(u) ==
    /\ ledgerOp.seq < MaxLedgerOps
    /\ ledgerOp' = [ seq |-> ledgerOp.seq + 1, op |-> "get_all_saved", user_id |-> u,
                     at |-> now,
                     items |-> { item @@ [ current_freshness10 |-> CurrentFreshness10(item, now),
                                           days_stored |-> DaysStored(item.saved_at, now) ]
                                 : item \in GetSavedItems(u) } ]
    /\ UNCHANGED <<now, sessions, saved_items, saveLog, aggVars, goalVars>>

\* The class get_storage_summary puts an item in, from the item dict.
Classify(item, at) ==
    LET expiration_days   == DictGet(item, "estimated_expiration_days", 7)
        days_until_expiry == expiration_days - DaysStored(item.saved_at, at)
    IN  IF days_until_expiry <= 0 THEN "spoiled"
        ELSE IF days_until_expiry <= 2 THEN "expiring_soon"
        ELSE "ok"

\* GET /storage/summary
GetStorageSummary(u) ==
    /\ ledgerOp.seq < MaxLedgerOps
    /\ ledgerOp' = [ seq |-> ledgerOp.seq + 1, op |-> "get_storage_summary", user_id |-> u,
                     at |-> now,
                     items |-> { [ session_id |-> item.session_id,
                                   saved_at |-> item.saved_at,
                                   class |-> Classify(item, now) ]
                                 : item \in GetSavedItems(u) } ]
    /\ UNCHANGED <<now, sessions, saved_items, saveLog, aggVars, goalVars>>

\* ORDER BY si.is_consumed ASC, si.saved_at DESC: x may come before y.
MayPrecede(x, y) ==
    \/ (~x.is_consumed /\ y.is_consumed)
    \/ (x.is_consumed = y.is_consumed /\ x.saved_at >= y.saved_at)

\* The lists get_saved_items can return for a set of dicts (ties in any order).
RECURSIVE Orderings(_)
Orderings(S) ==
    IF S = {} THEN { << >> }
    ELSE UNION { { <<x>> \o t : t \in Orderings(S \ {x}) } :
                 x \in { x \in S : \A y \in S : MayPrecede(x, y) } }

\* The clock readings of a loop over n items that starts at `at` while the clock
\* advances by at most one tick: the first `before` items read `at`, the rest at + 1.
LoopReadings(n, at, before) == [i \in 1..n |-> IF i <= before THEN at ELSE at + 1]

\* GET /saved/all with the clock running: the loop reads datetime.now() once per item.
GetAllSavedLoop(u, before) ==
    /\ ledgerOp.seq < MaxLedgerOps
    /\ \E items \in Orderings(GetSavedItems(u)) :
         LET read_at == LoopReadings(Len(items), now, before) IN
         /\ before <= Len(items)
         /\ before < Len(items) => now < MaxLedgerTime
         /\ now' = IF before < Len(items) THEN now + 1 ELSE now
         /\ ledgerOp' = [ seq |-> ledgerOp.seq + 1, op |-> "get_all_saved", user_id |-> u,
                          at |-> now,
                          items |-> { items[i] @@
                                        [ current_freshness10 |->
                                              CurrentFreshness10(items[i], read_at[i]),
                                          days_stored |->
                                              DaysStored(items[i].saved_at, read_at[i]) ]
                                      : i \in DOMAIN items } ]
    /\ UNCHANGED <<sessions, saved_items, saveLog, aggVars, goalVars>>

\* GET /storage/summary with the clock running, likewise.
GetStorageSummaryLoop(u, before) ==
    /\ ledgerOp.seq < MaxLedgerOps
    /\ \E items \in Orderings(GetSavedItems(u)) :
         LET read_at == LoopReadings(Len(items), now, before) IN
         /\ before <= Len(items)
         /\ before < Len(items) => now < MaxLedgerTime
         /\ now' = IF before < Len(items) THEN now + 1 ELSE now
         /\ ledgerOp' = [ seq |-> ledgerOp.seq + 1, op |-> "get_storage_summary",
                          user_id |-> u, at |-> now,
                          items |-> { [ session_id |-> items[i].session_id,
                                        saved_at |-> items[i].saved_at,
                                        class |-> Classify(items[i], read_at[i]) ]
                                      : i \in DOMAIN items } ]
    /\ UNCHANGED <<sessions, saved_items, saveLog, aggVars, goalVars>>

\* The min_freshness values callers pass (POST /meals/from-saved passes 30).
MinFreshnessInputs == {30, 40}

\* The filter of get_usable_saved_items over the dicts of get_saved_items.
UsableItems(items, min_freshness) ==
    { item \in items :
        /\ ~item.is_consumed
        /\ ~item.is_risky
        /\ ~(item.freshness_percentage < min_freshness) }

\* get_usable_saved_items(user_id, min_freshness), the feed of POST /meals/from-saved
GetUsableSavedItems(u, min_freshness) ==
    /\ ledgerOp.seq < MaxLedgerOps
    /\ ledgerOp' = [ seq |-> ledgerOp.seq + 1, op |-> "get_usable_saved_items",
                     user_id |-> u, at |-> now, min_freshness |-> min_freshness,
                     items |-> UsableItems(GetSavedItems(u), min_freshness) ]
    /\ UNCHANGED <<now, sessions, saved_items, saveLog, aggVars, goalVars>>

(***************************************************************************)
(* Specifications                                                          *)
(***************************************************************************)
Init ==
    /\ now = 0
    /\ meals = {}
    /\ aggregates = {}
    /\ requests = <<>>
    /\ users = Users
    /\ profiles = [u \in Users |-> NoProfile]
    /\ goalVersions = {}
    /\ goalOp = [seq |-> 0, op |-> "none"]
    /\ sessions = {}
    /\ saved_items = {}
    /\ saveLog = [k \in Users \X SessionIds |-> NoSave]
    /\ ledgerOp = [seq |-> 0, op |-> "none"]

NextAgg ==
    \/ Tick(MaxAggTime)
    \/ \E u \in Users, d \in Deltas : LogMealSaveMeal(u, d)
    \/ \E u \in Users, day \in Days(MaxAggTime), d \in Deltas : LogUserMealSaveMeal(u, day, d)
    \/ \E u \in Users, d \in Deltas : SaveMealFails(u, d)
    \/ \E i \in DOMAIN requests : UpdateDailyAggregate(i)
    \/ \E i \in DOMAIN requests : UpdateDailyAggregateFails(i)
    \/ \E u \in Users, meal_id \in 1..MaxReqs : DeleteMeal(u, meal_id)

SpecAgg == Init /\ [][NextAgg]_vars

\* The calls a service without a connection pool receives.
NextNoPool ==
    \/ Tick(MaxAggTime)
    \/ \E u \in Users, d \in Deltas : LogMealNoPool(u, d)
    \/ \E u \in Users, d \in Deltas : SaveMealNoPool(u, d)
    \/ \E u \in Users, day \in Days(MaxAggTime), d \in Deltas :
         UpdateDailyAggregateNoPool(u, day, d)

SpecNoPool == Init /\ [][NextNoPool]_vars

\* Meal logging with the raw bodies clients send.
NextBodies ==
    \/ Tick(MaxAggTime)
    \/ \E u \in Users, body \in RawBodies : LogMealBody(u, body)
    \/ \E u \in Users, day \in Days(MaxAggTime), body \in RawBodies :
         LogUserMealBody(u, day, body)
    \/ \E i \in DOMAIN requests : UpdateDailyAggregate(i)

SpecBodies == Init /\ [][NextBodies]_vars

NextGoals ==
    \/ Tick(MaxGoalTime)
    \/ \E u \in Users, data \in ProfileInputs, ai \in AIOutcomes, fail \in ProfileFailures :
         CreateHealthProfile(u, data, ai, fail)
    \/ \E u \in Users, d \in Days(MaxGoalTime), period \in Periods : GetUserNutritionGoals(u, d, period)
    \/ \E u \in Users, done \in 0..DeleteStatements : DeleteUser(u, done)
    \/ \E u \in Users : GetDailySummary(u)
    \/ \E u \in Users, ai \in AIOutcomes : GenerateAiGoals(u, ai)
    \/ \E u \in Users, period \in SummaryPeriods, ai \in AIOutcomes :
         GetComprehensiveNutrition(u, period, ai)
    \/ \E u \in Users, period \in SummaryPeriods : ComprehensiveNutritionRoute(u, period)

SpecGoals == Init /\ [][NextGoals]_vars

\* The streak loop of GET /user/stats: days back from d with calories > 0 (at most 366).
RECURSIVE Streak(_, _, _)
Streak(u, d, streak) ==
    IF DailyTotals(u, d).calories > 0
    THEN IF streak + 1 > 365 THEN streak + 1 ELSE Streak(u, d - 1, streak + 1)
    ELSE streak

\* GET /user/stats
GetUserStats(u) ==
    /\ LET rows == AggregatesRange(u, Today - 6, Today) IN
       goalOp' = [ seq |-> goalOp.seq, op |-> "get_user_stats", user_id |-> u,
                   date |-> Today,
                   total_scans |-> Cardinality({ x \in sessions : x.user_id = u }),
                   saved_items |-> Cardinality(GetSavedItems(u)),
                   days_tracked |-> Cardinality(rows),
                   current_streak |-> Streak(u, Today, 0) ]
    /\ UNCHANGED <<now, users, profiles, goalVersions, aggVars, ledgerVars>>

\* The days a client dates a meal with when the range reads are exercised: a week ago,
\* and tomorrow.
RangeLogDays == {-6, 1}

\* Meal logging with dated meals and the range reads of the summaries.
NextRange ==
    \/ Tick(MaxAggTime)
    \/ \E u \in Users, day \in RangeLogDays, d \in Deltas : LogUserMealSaveMeal(u, day, d)
    \/ \E i \in DOMAIN requests : UpdateDailyAggregate(i)
    \/ \E u \in Users : GetWeeklySummary(u)
    \/ \E u \in Users : GetUserStats(u)

SpecRange == Init /\ [][NextRange]_vars

\* The goal calculator on its own: a pending call with any profile and any behaviour of
\* the collaborator, then the call.
InitCalc ==
    /\ now = 0
    /\ meals = {}
    /\ aggregates = {}
    /\ requests = <<>>
    /\ users = Users
    /\ profiles = [u \in Users |-> NoProfile]
    /\ goalVersions = {}
    /\ \E profile \in CalcProfiles, ai \in AIOutcomes :
         goalOp = [ seq |-> 0, op |-> "call_generate_personalized_nutrition_goals",
                    profile |-> profile, ai |-> ai ]
    /\ sessions = {}
    /\ saved_items = {}
    /\ saveLog = [k \in Users \X SessionIds |-> NoSave]
    /\ ledgerOp = [seq |-> 0, op |-> "none"]

NextCalc == GeneratePersonalizedNutritionGoals

SpecCalc == InitCalc /\ [][NextCalc]_vars

NextLedger ==
    \/ Tick(MaxLedgerTime)
    \/ \E u \in Users, f \in FreshnessResults : ScanFood(u, f)
    \/ \E u \in Users, sid \in SessionIds, st \in StorageTypes : AddToSaved(u, sid, st)
    \/ \E u \in Users, sid \in SessionIds : MarkItemConsumed(u, sid)
    \/ \E u \in Users, sid \in SessionIds, reason \in RemoveReasons :
         RemoveFromStorage(u, sid, reason)
    \/ \E u \in Users : GetAllSaved(u)
    \/ \E u \in Users : GetStorageSummary(u)
    \/ \E u \in Users, m \in MinFreshnessInputs : GetUsableSavedItems(u, m)

SpecLedger == Init /\ [][NextLedger]_vars

\* The save entry points of the ledger next to scans and the saved-items read.
NextSave ==
    \/ Tick(MaxLedgerTime)
    \/ \E u \in Users, f \in FreshnessResults : ScanFood(u, f)
    \/ \E u \in Users, sid \in SessionIds, st \in StorageTypes : AddToSaved(u, sid, st)
    \/ \E u \in Users, sid \in SessionIds, st \in StorageTypes, rejected \in BOOLEAN :
         SaveFoodItem(u, sid, st, rejected)
    \/ \E u \in Users : GetAllSaved(u)

SpecSave == Init /\ [][NextSave]_vars

\* A user's list of several saved items: the scans of ListSessions have been stored
\* for user 1, nothing is saved yet.
ListSessions == 2
ListSessionIds == 1..ListSessions

InitList ==
    /\ now = 0
    /\ meals = {}
    /\ aggregates = {}
    /\ requests = <<>>
    /\ users = Users
    /\ profiles = [u \in Users |-> NoProfile]
    /\ goalVersions = {}
    /\ goalOp = [seq |-> 0, op |-> "none"]
    /\ \E f \in [ListSessionIds -> FreshnessResults] :
         sessions = { [session_id |-> sid, user_id |-> 1, freshness |-> f[sid]] :
                      sid \in ListSessionIds }
    /\ saved_items = {}
    /\ saveLog = [k \in Users \X ListSessionIds |-> NoSave]
    /\ ledgerOp = [seq |-> 0, op |-> "none"]

NextList ==
    \/ Tick(MaxLedgerTime)
    \/ \E sid \in ListSessionIds, st \in StorageTypes : AddToSaved(1, sid, st)
    \/ \E before \in 0..ListSessions : GetAllSavedLoop(1, before)
    \/ \E before \in 0..ListSessions : GetStorageSummaryLoop(1, before)

SpecList == InitList /\ [][NextList]_vars

(***************************************************************************)
(* Properties of the AggregateStore (SpecAgg)                              *)
(***************************************************************************)
\* The requests whose update_daily_aggregate call returned, per key.
Applied(u, d) ==
    { i \in DOMAIN requests :
        requests[i].pc = "done" /\ requests[i].user_id = u /\ requests[i].day = d }

DeltaSum(S, k) == SumOver(S, [i \in S |-> requests[i].nutrients[k]])

RowsOfKey(u, d) == { r \in aggregates : r.user_id = u /\ r.day_date = d }

\* C1: for every (user, day) key, the stored totals equal the field-wise sum of the
\* deltas of all update_daily_aggregate calls that completed on that key, whatever the
\* interleaving of the requests; a key no call completed on has no row.
C1_TotalsAreSumOfDeltas ==
    \A u \in Users, d \in Days(MaxAggTime) :
        LET S == Applied(u, d) IN
        /\ (S = {}) = (RowsOfKey(u, d) = {})
        /\ \A r \in RowsOfKey(u, d) :
             \A k \in Nutrients : DictGet(r.totals, k, 0) = DeltaSum(S, k)

\* Two requests that overlapped in time put 100 and 50 calories on a brand-new key:
\* the row holds 150.
C1_Witness ==
    \E i, j \in DOMAIN requests :
        /\ i \in requests[j].overlaps
        /\ requests[i].pc = "done" /\ requests[j].pc = "done"
        /\ requests[i].user_id = requests[j].user_id /\ requests[i].day = requests[j].day
        /\ requests[i].nutrients.calories = 100 /\ requests[j].nutrients.calories = 50
        /\ Applied(requests[i].user_id, requests[i].day) = {i, j}
        /\ \E r \in RowsOfKey(requests[i].user_id, requests[i].day) : r.totals.calories = 150

\* C2: the meals_count of a row equals the number of update_daily_aggregate calls
\* completed on its key (1 after the first, one more after each later call).
C2_MealsCountIsCallCount ==
    \A u \in Users, d \in Days(MaxAggTime) :
        \A r \in RowsOfKey(u, d) : r.meals_count = Cardinality(Applied(u, d))

C2_Witness ==
    \E r \in aggregates :
        /\ r.meals_count = 2
        /\ \E i \in Applied(r.user_id, r.day_date) : requests[i].overlaps # {}

\* C3: there is never more than one aggregate row for a (user_id, day_date) key.
C3_OneRowPerKey ==
    \A r1, r2 \in aggregates :
        (r1.user_id = r2.user_id /\ r1.day_date = r2.day_date) => r1 = r2

\* Two first deltas for one key were in flight together and both have been applied.
C3_Witness ==
    \E i, j \in DOMAIN requests :
        /\ i \in requests[j].overlaps
        /\ requests[i].pc = "done" /\ requests[j].pc = "done"
        /\ requests[i].user_id = requests[j].user_id /\ requests[i].day = requests[j].day
        /\ Applied(requests[i].user_id, requests[i].day) = {i, j}
        /\ Cardinality(RowsOfKey(requests[i].user_id, requests[i].day)) = 1

(***************************************************************************)
(* Properties of the GoalVersionStore (SpecGoals)                          *)
(***************************************************************************)
GoalStep(op) == goalOp'.seq # goalOp.seq /\ goalOp'.op = op

\* C4: get_user_nutrition_goals(user, date) selects a version of that user with the
\* greatest effective_from that is <= date, and finds none exactly when the user has no
\* version with effective_from <= date; the response carries that version's targets.
C4_ActiveVersionIsLatestUpTo ==
    goalOp.op = "get_user_nutrition_goals" =>
        LET eligible == { r \in goalVersions :
                            r.user_id = goalOp.user_id /\ r.effective_from <= goalOp.date }
        IN  /\ goalOp.found = (eligible # {})
            /\ goalOp.found =>
                 /\ goalOp.row \in eligible
                 /\ \A q \in eligible : q.effective_from <= goalOp.row.effective_from
                 /\ goalOp.result.effective_from = goalOp.row.effective_from
                 /\ \A k \in GoalKeys :
                      goalOp.result[k] = goalOp.row[goalOp.result.period][k]

\* A query for a date on which a version is effective while the same user already has
\* a later-dated version and an earlier one.
C4_Witness ==
    /\ goalOp.op = "get_user_nutrition_goals"
    /\ goalOp.found
    /\ goalOp.row.effective_from = goalOp.date
    /\ \E q \in goalVersions :
         q.user_id = goalOp.user_id /\ q.effective_from > goalOp.date

\* C5 as stated: no step removes or changes a stored goal version.
C5_NeverDeleted ==
    [][\A r \in goalVersions : r \in goalVersions']_vars

\* C5 amended: a stored goal version is removed or changed only by delete_user of the
\* user it belongs to; every other operation leaves all versions as they are.
C5_DeletedOnlyWithAccount ==
    [][\A r \in goalVersions :
          \/ r \in goalVersions'
          \/ GoalStep("delete_user") /\ goalOp'.user_id = r.user_id]_vars

\* A second version was appended for a user and the first one is still stored.
C5_Witness ==
    /\ goalOp.op = "create_health_profile"
    /\ \E r, q \in goalVersions :
         /\ r.user_id = goalOp.user_id /\ q.user_id = goalOp.user_id
         /\ r.id = goalOp.seq /\ q.id < r.id /\ q.daily # r.daily

\* C6 as stated: a create_health_profile call that returns True appends exactly one
\* version, for that user, with effective_from = the current date.
C6_UpsertAppendsVersion ==
    [][(GoalStep("create_health_profile") /\ goalOp'.ret) =>
          \E r \in goalVersions' :
              /\ r \notin goalVersions
              /\ goalVersions' = goalVersions \cup {r}
              /\ r.user_id = goalOp'.user_id
              /\ r.effective_from = Today]_vars

(***************************************************************************)
(* Properties of the InventoryLedger (SpecLedger)                          *)
(***************************************************************************)
LedgerStep(op) == ledgerOp'.seq # ledgerOp.seq /\ ledgerOp'.op = op

\* The step is a markConsumed call (either entry point) on the item of row r.
ConsumeStepOn(r) ==
    /\ \/ LedgerStep("mark_item_consumed")
       \/ LedgerStep("remove_from_storage") /\ ledgerOp'.reason = "consumed"
    /\ ledgerOp'.user_id = r.user_id
    /\ ledgerOp'.session_id = r.session_id

\* C7 as stated: Consumed is terminal: a consumed item is never deleted and never
\* returns to Saved, whatever save, markConsumed or remove call comes next.
C7_ConsumedIsTerminal ==
    [][\A r \in saved_items :
          r.is_consumed => \E q \in saved_items' : q.id = r.id /\ q.is_consumed]_vars

\* C8 as stated: markConsumed on an already-consumed item succeeds and changes nothing:
\* is_consumed stays true and consumed_at keeps the time of the first consumption.
C8_MarkConsumedIdempotent ==
    [][\A r \in saved_items :
          (r.is_consumed /\ ConsumeStepOn(r)) =>
              /\ ledgerOp'.ret
              /\ \E q \in saved_items' :
                   q.id = r.id /\ q.is_consumed /\ q.consumed_at = r.consumed_at]_vars

\* 10 * max(0, initial_freshness - daysElapsed * decayRate[storage_type]) for the
\* initial_freshness and storage_type of the saved_item dict the save was made with.
SpecifiedFreshness10(saved_item, saved_at, at) ==
    Max(0, 10 * saved_item.initial_freshness
             - DaysStored(saved_at, at) * DecayRate10(saved_item.storage_type))

\* C9 as stated: the current freshness GET /saved/all reports for an item is the
\* decayed value of the initial_freshness and storage_type it was saved with.
C9_ReportedFreshnessIsDecayed ==
    ledgerOp.op = "get_all_saved" =>
        \A item \in ledgerOp.items :
            item.current_freshness10 =
                SpecifiedFreshness10(saveLog[<<ledgerOp.user_id, item.session_id>>],
                                     item.saved_at, ledgerOp.at)

\* The class of an item by the estimated_expiration_days computed when it was saved.
SpecifiedClass(saved_item, saved_at, at) ==
    LET left == saved_item.estimated_expiration_days - DaysStored(saved_at, at) IN
    IF left <= 0 THEN "spoiled" ELSE IF left <= 2 THEN "expiring_soon" ELSE "ok"

\* C10 as stated: GET /storage/summary classifies an item spoiled exactly when
\* daysElapsed >= its estimated_expiration_days computed at save time, expiring_soon
\* when 0 < estimated_expiration_days - daysElapsed <= 2, and ok otherwise.
C10_ClassifiedByEstimate ==
    ledgerOp.op = "get_storage_summary" =>
        \A item \in ledgerOp.items :
            item.class =
                SpecifiedClass(saveLog[<<ledgerOp.user_id, item.session_id>>],
                               item.saved_at, ledgerOp.at)

\* C11 as stated: get_usable_saved_items returns exactly the user's saved items that are
\* not consumed, not risky and whose freshness decayed to the read time is >= min_freshness.
C11_UsableByCurrentFreshness ==
    ledgerOp.op = "get_usable_saved_items" =>
        { item.session_id : item \in ledgerOp.items } =
        { r.session_id : r \in
            { q \in saved_items :
                /\ q.user_id = ledgerOp.user_id
                /\ ~q.is_consumed
                /\ ~q.is_risky
                /\ SpecifiedFreshness10(saveLog[<<q.user_id, q.session_id>>],
                                        q.saved_at, ledgerOp.at)
                     >= 10 * ledgerOp.min_freshness } }

\* The step is the update_daily_aggregate call of request i and turns row r into q by
\* adding that request's delta and counting one more meal.
AddedBy(i, r, q) ==
    /\ requests[i].pc = "aggregate" /\ requests'[i].pc = "done"
    /\ requests'[i].user_id = r.user_id /\ requests'[i].day = r.day_date
    /\ q.totals = [k \in Nutrients |-> DictGet(r.totals, k, 0) + requests[i].nutrients[k]]
    /\ q.meals_count = r.meals_count + 1

FieldOr(profile, k, null, default) ==
    IF k \notin DOMAIN profile THEN default
    ELSE IF profile[k] = null THEN default ELSE profile[k]

SpecifiedComputeGoals(profile) ==
    FallbackGoals(FieldOr(profile, "age", Null, 30),
                  FieldOr(profile, "gender", None, "other"),
                  FieldOr(profile, "weight_kg", Null, 70),
                  FieldOr(profile, "height_cm", Null, 170),
                  FieldOr(profile, "activity_level", None, "moderate"),
                  ConditionStrings(profile), GoalStrings(profile))

\* C13 as stated: when the user has no version with effective_from <= today, the daily
\* summary does not fail and reports as goals the default output of the goal calculator:
\* its output for the all-default profile or for the user's stored profile, or the
\* default targets (2000, 50, 275, 65, 28) it uses when it has no profile at all.
C13_MissingGoalFallsBackToCalculator ==
    (goalOp.op = "get_daily_summary" /\ ~goalOp.found) =>
        \/ \E profile \in {NoProfile, profiles[goalOp.user_id]} :
              \A k \in DOMAIN goalOp.goals :
                  goalOp.goals[k] = SpecifiedComputeGoals(profile)[k]
        \/ \A k \in DOMAIN goalOp.goals : goalOp.goals[k] = AnswerDefaults[k]

\* C16 as stated: POST /user/generate-goals by a user who has a health profile appends
\* a new goal version for that user.
C16_RefreshAppendsVersion ==
    [][(GoalStep("generate_ai_goals") /\ profiles[goalOp'.user_id].present) =>
          \E r \in goalVersions' :
              r \notin goalVersions /\ r.user_id = goalOp'.user_id]_vars

\* C17: every stored goal version has, for each nutrient, weekly = daily * 7,
\* monthly = daily * 30 and yearly = daily * 365, and get_user_nutrition_goals returns
\* the stored fields of the period asked for (weekly calories = daily calories * 7).
C17_PeriodGoalsFrozenMultiples ==
    /\ \A r \in goalVersions : \A k \in GoalKeys :
          /\ r.weekly[k] = r.daily[k] * 7
          /\ r.monthly[k] = r.daily[k] * 30
          /\ r.yearly[k] = r.daily[k] * 365
    /\ (goalOp.op = "get_user_nutrition_goals" /\ goalOp.found) =>
          /\ goalOp.row \in goalVersions
          /\ \A k \in GoalKeys :
                goalOp.result[k] =
                    goalOp.row.daily[k] *
                        (CASE goalOp.period = "weekly"  -> 7
                           [] goalOp.period = "monthly" -> 30
                           [] goalOp.period = "yearly"  -> 365
                           [] OTHER                     -> 1)

\* The weekly goals of a version were read: 7 times its daily protein target, which
\* differs from its daily calorie target times 7.
C17_Witness ==
    /\ goalOp.op = "get_user_nutrition_goals" /\ goalOp.found
    /\ goalOp.period = "weekly"
    /\ goalOp.row.daily.protein > 0
    /\ goalOp.result.protein = 7 * goalOp.row.daily.protein
    /\ goalOp.result.calories = 7 * goalOp.row.daily.calories

\* scaleGoal as specified: weekly 7, monthly 30, yearly 365, else 1.
SpecifiedMultiplier(period) ==
    CASE period = "weekly"  -> 7
      [] period = "monthly" -> 30
      [] period = "yearly"  -> 365
      [] OTHER              -> 1

\* C18 as stated: the period goals a nutrition summary reports are its daily goals times
\* the multiplier of the period asked for: weekly 7, monthly 30, yearly 365.
C18_PeriodGoalsAreScaledDaily ==
    goalOp.op \in {"get_comprehensive_nutrition", "comprehensive_nutrition_route"} =>
        \A k \in DOMAIN goalOp.daily_goals :
            goalOp.period_goals[k] = goalOp.daily_goals[k] * SpecifiedMultiplier(goalOp.period)

(***************************************************************************)
(* Properties of the range reads (SpecRange)                               *)
(***************************************************************************)
\* C19 as stated: a range read returns only rows that exist in [from, to], and the days
\* tracked reported for the range is the number of rows present in it, 0 when there
\* are none.
C19_DaysTrackedIsRowCount ==
    [][ (goalOp' # goalOp /\ goalOp'.op \in {"get_weekly_summary", "get_user_stats"}) =>
          LET present == { r \in aggregates :
                             /\ r.user_id = goalOp'.user_id
                             /\ r.day_date >= goalOp'.date - 6
                             /\ r.day_date <= goalOp'.date }
          IN  /\ goalOp'.days_tracked = Cardinality(present)
              /\ goalOp'.op = "get_weekly_summary" =>
                    Len(goalOp'.daily_breakdown) = Cardinality(present) ]_vars

(***************************************************************************)
(* Properties of the GoalCalculator (SpecCalc)                             *)
(***************************************************************************)
\* C14 as stated: with the collaborator not configured, the goal computation returns
\* targets for every profile without raising, namely those of the profile in which each
\* absent or null age, weight_kg, height_cm, activity_level and gender has its default.
C14_ComputeGoalsNeverRaises ==
    (goalOp.op = "generate_personalized_nutrition_goals" /\ goalOp.ai.kind = "no_client") =>
        /\ ~Raised(goalOp.result)
        /\ goalOp.result = SpecifiedComputeGoals(goalOp.profile)

\* An answer with every required numeric field present and numeric.
ValidAnswer(ai) ==
    /\ ai.kind = "answer"
    /\ \A k \in GoalKeys : k \in DOMAIN ai.data /\ k \notin DictGet(ai, "non_numeric", {})

\* C15 as stated: the collaborator's answer is accepted only if it has every required
\* numeric field, present and numeric; in every other case (a field missing or not a
\* number, no answer, a failure) the result is the deterministic computation for the
\* same profile.
C15_InvalidAnswerFallsBack ==
    goalOp.op = "generate_personalized_nutrition_goals" =>
        IF ValidAnswer(goalOp.ai)
        THEN \A k \in GoalKeys : goalOp.result[k] = goalOp.ai.data[k]
        ELSE goalOp.result = GenerateGoals(goalOp.profile, [kind |-> "no_client"])

\* Scenario A: age 30, male, 70 kg, 175 cm, moderately active, maintaining weight.
ScenarioA ==
    [ age |-> 30, gender |-> "male", height_cm |-> 175, weight_kg |-> 70,
      activity_level |-> "moderate", has_diabetes |-> FALSE, weight_goal |-> "maintain",
      muscle_building |-> FALSE ]

\* The deterministic computation has been applied to Scenario A.
ScenarioAComputed ==
    /\ goalOp.op = "generate_personalized_nutrition_goals"
    /\ goalOp.profile = ScenarioA
    /\ goalOp.ai.kind \in {"no_client", "error"}

\* 160 * TDEE of a profile: (4 * bmr) * (40 * multiplier)
Tdee160(profile) ==
    Bmr4(profile.gender, profile.weight_kg, profile.height_cm, profile.age)
      * Multiplier40(profile.activity_level)

\* C20 as stated: for Scenario A the computation has BMR = 1748.75 (4 * BMR = 6995),
\* TDEE about 2710.6 (160 * TDEE within 8 of 433696), a calorie target of 2711 and
\* protein of 56 g.
C20_ScenarioA_AsStated ==
    ScenarioAComputed =>
        /\ Bmr4("male", 70, 175, 30) = 6995
        /\ Tdee160(goalOp.profile) >= 433696 - 8 /\ Tdee160(goalOp.profile) <= 433696 + 8
        /\ goalOp.result.calories = 2711
        /\ goalOp.result.protein = 56

\* C20 amended: for Scenario A the computation has BMR = 1648.75 (4 * BMR = 6595),
\* TDEE = 2555.5625 (160 * TDEE = 408890), a calorie target of 2556 and protein of 56 g.
C20_ScenarioA ==
    ScenarioAComputed =>
        /\ Bmr4(goalOp.profile.gender, goalOp.profile.weight_kg,
                goalOp.profile.height_cm, goalOp.profile.age) = 6595
        /\ Tdee160(goalOp.profile) = 408890
        /\ goalOp.result.calories = 2556
        /\ goalOp.result.protein = 56

C20_Witness ==
    /\ ScenarioAComputed
    /\ goalOp.result.calories = 2556
    /\ goalOp.result.protein = 56

\* C21 as stated: the deterministic computation returns fiber 35 and sugar 25 for a
\* diabetic profile, and for a non-diabetic one fiber 28 and sugar 90 for gender male,
\* 75 for female and 80 for other.
C21_FiberAndSugarTargets ==
    ( /\ goalOp.op = "generate_personalized_nutrition_goals"
      /\ goalOp.ai.kind \in {"no_client", "error"}
      /\ ~Raised(goalOp.result) ) =>
        LET gender == FieldOr(goalOp.profile, "gender", None, "other")
        IN  IF goalOp.profile.has_diabetes
            THEN goalOp.result.fiber = 35 /\ goalOp.result.sugar = 25
            ELSE /\ goalOp.result.fiber = 28
                 /\ goalOp.result.sugar = (CASE gender = "male"   -> 90
                                             [] gender = "female" -> 75
                                             [] OTHER             -> 80)

(***************************************************************************)
(* Properties of the save entry points (SpecSave)                          *)
(***************************************************************************)
\* C22 as stated: on every save entry point, a save with a session reference that does
\* not exist fails with not-found and creates no saved item.
C22_SaveOfMissingSessionFails ==
    [][ ( /\ ledgerOp' # ledgerOp
          /\ ledgerOp'.op \in {"add_to_saved", "save_food_item"}
          /\ GetSession(sessions, ledgerOp'.session_id) = {} ) =>
            /\ ledgerOp'.status = 404
            /\ saved_items' = saved_items ]_vars

(***************************************************************************)
(* Properties of the store without a connection (SpecNoPool)               *)
(***************************************************************************)
\* Request or call i came back normally in this step.
ReturnsNormally(i) ==
    /\ requests'[i].pc \in {"done", "returned"}
    /\ i \in DOMAIN requests => requests[i].pc \notin {"done", "returned"}

\* The delta of request i is what this step added to the row of its key.
DeltaApplied(i) ==
    LET req == requests'[i]
        old == ConflictRows(aggregates, req.user_id, req.day)
    IN  \E r \in ConflictRows(aggregates', req.user_id, req.day) :
           /\ \A k \in Nutrients :
                 DictGet(r.totals, k, 0) =
                     (IF old = {} THEN 0 ELSE DictGet((CHOOSE q \in old : TRUE).totals, k, 0))
                       + DictGet(req.nutrients, k, 0)
           /\ r.meals_count = (IF old = {} THEN 0 ELSE (CHOOSE q \in old : TRUE).meals_count) + 1

\* C23 as stated: update_daily_aggregate never returns normally, and a meal-logging
\* request never reports success, unless the delta was applied to the aggregate; when
\* the store is unavailable the caller gets an error.
C23_NoSilentDrop ==
    [][ \A i \in DOMAIN requests' : ReturnsNormally(i) => DeltaApplied(i) ]_vars

(***************************************************************************)
(* Properties of meal logging with raw bodies (SpecBodies)                 *)
(***************************************************************************)
\* C24 as stated: a meal-logging request whose delta has a non-numeric nutrient value
\* ends in an error and never reaches the aggregate: no step of such a request changes
\* the totals or the meals_count of any row.
C24_MalformedDeltaRejected ==
    /\ [][ \A i \in DOMAIN requests' :
             ("body" \in DOMAIN requests'[i] /\ NonNumeric(requests'[i].body)) =>
                 requests'[i].pc = "error" ]_vars
    /\ [][ (\E i \in DOMAIN requests :
               /\ "body" \in DOMAIN requests[i] /\ NonNumeric(requests[i].body)
               /\ requests'[i].pc # requests[i].pc) => aggregates' = aggregates ]_vars

(***************************************************************************)
(* Properties of the list reads with a running clock (SpecList)            *)
(***************************************************************************)
\* C25 as stated: when freshness or spoilage is computed for the list of a user's saved
\* items in one request, there is one instant t (between the start and the end of the
\* request) against which every item of the list was evaluated.
C25_OneNowPerList ==
    [][ (ledgerOp' # ledgerOp /\ ledgerOp'.op \in {"get_all_saved", "get_storage_summary"}) =>
          \E t \in now..now' :
              \A item \in ledgerOp'.items :
                  IF ledgerOp'.op = "get_all_saved"
                  THEN /\ item.days_stored = DaysStored(item.saved_at, t)
                       /\ item.current_freshness10 = CurrentFreshness10(item, t)
                  ELSE item.class = Classify(item, t) ]_vars

(***************************************************************************)
(* Temporal properties of the GoalVersionStore (SpecGoals)                 *)
(***************************************************************************)
\* The dates a read can ask for, the day before the first one included.
PastAndPresentDays == (-1)..(MaxGoalTime \div TicksPerDay)

\* C27: every version is inserted with effective_from equal to the date of its
\* insertion, never a later one; hence an insertion changes, for no user and no date D
\* earlier than the current date, the rows get_user_nutrition_goals(user, D) can select.
C27_AppendLeavesPastUntouched ==
    [][ (goalVersions' \ goalVersions # {}) =>
          /\ \A r \in goalVersions' \ goalVersions : r.effective_from = Today
          /\ \A u \in Users, D \in PastAndPresentDays :
                D < Today =>
                    FirstByEffectiveFromDesc(GoalRowsUpTo(goalVersions', u, D))
                      = FirstByEffectiveFromDesc(GoalRowsUpTo(goalVersions, u, D)) ]_vars

\* A read for an earlier date returned the version of that date after a later version
\* of the same user had been inserted.
C27_Witness ==
    /\ goalOp.op = "get_user_nutrition_goals"
    /\ goalOp.found
    /\ goalOp.date < Today
    /\ \E r \in goalVersions :
          /\ r.user_id = goalOp.user_id
          /\ r.id > goalOp.row.id
          /\ r.effective_from > goalOp.date
          /\ r.effective_from = Today

\* C28 as stated: when a user has several versions with the same effective_from,
\* get_user_nutrition_goals for that day returns one uniquely determined version, the
\* most recently inserted one (the greatest id).
C28_SameDayLatestWins ==
    [][ (goalOp' # goalOp /\ goalOp'.op = "get_user_nutrition_goals" /\ goalOp'.found) =>
          \A r \in GoalRowsUpTo(goalVersions, goalOp'.user_id, goalOp'.date) :
              r.effective_from = goalOp'.row.effective_from => r.id <= goalOp'.row.id ]_vars

(***************************************************************************)
(* Meals and aggregates together (SpecAgg)                                 *)
(***************************************************************************)
LoggingEndpoints == {"log_meal", "log_user_meal", "add_scan_to_meal"}

\* No meal-logging request is between its two store calls and no meal was deleted.
QuietAndUndeleted ==
    \A i \in DOMAIN requests :
        requests[i].pc # "aggregate" /\ requests[i].pc # "deleted"

\* C29 as stated: once the meal-logging requests have finished, with success or with an
\* error, the meal row of a request is stored if and only if the aggregate of its key
\* received its delta; so, while no meal is deleted, the meals_count of a (user, day)
\* row is the number of meals stored for that user and day (no row: no meal).
C29_MealStoredIffDeltaApplied ==
    QuietAndUndeleted =>
        /\ \A i \in DOMAIN requests :
              requests[i].endpoint \in LoggingEndpoints =>
                  ((\E m \in meals : m.id = i) <=> requests[i].pc = "done")
        /\ \A u \in Users, d \in Days(MaxAggTime) :
              LET stored == { m \in meals : m.user_id = u /\ m.day = d } IN
              IF RowsOfKey(u, d) = {} THEN stored = {}
              ELSE \A r \in RowsOfKey(u, d) : r.meals_count = Cardinality(stored)

(***************************************************************************)
(* Decay of a stored item over time (SpecLedger)                           *)
(***************************************************************************)
\* 10 * the current freshness GET /saved/all reports at `at` for the row r of tbl.
ReportedFreshness10(r, at) ==
    LET s == CHOOSE x \in sessions : x.session_id = r.session_id
    IN  CurrentFreshness10(SavedItemDict(r, s), at)

\* C30 as stated: under any ledger operation and as time advances, the current
\* freshness reported for a stored (user, session) item never increases and is never
\* below 0; saving the same session again keeps a single entry and leaves its saved_at
\* as it was.
C30_FreshnessNeverIncreases ==
    [][ \A r \in saved_items : \A q \in saved_items' :
          (q.user_id = r.user_id /\ q.session_id = r.session_id) =>
              /\ ReportedFreshness10(q, now') <= ReportedFreshness10(r, now)
              /\ ReportedFreshness10(q, now') >= 0
              /\ q.saved_at = r.saved_at
              /\ Cardinality(SavedRows(saved_items', q.user_id, q.session_id)) = 1 ]_vars

====
